---- MODULE Spec2Model ----
(***************************************************************************)
(* Model of the crate `attempt` (src/src/lib.rs): the two-pointer passes   *)
(* reduce_by_allowed and reduce_by_preferred and their composition in      *)
(* attempt.  Every `while` loop is modelled one iteration per step so that *)
(* termination and index bounds are properties of the behaviours.          *)
(* Vectors are 1-based sequences; the pointers keep the 0-based values of  *)
(* the source, so `original[ o_pointer ]` is At(original, o_pointer).      *)
(***************************************************************************)
EXTENDS Integers, Sequences, FiniteSets

\* Bounds of the explored inputs.
MaxAvail == 3
MaxList == 2
MaxVal == 3

\* ---------------------------------------------------------------------
\* enum Value { Any, Number( i32 ) }
Any == [tag |-> "Any"]
Number(n) == [tag |-> "Number", num |-> n]
Value == {Any} \cup {Number(n) : n \in 1..MaxVal}

SeqsUpTo(S, n) == UNION {[1..k -> S] : k \in 0..n}

\* Vec indexing with a 0-based index; an index outside the vector panics.
InBounds(v, i) == i >= 0 /\ i < Len(v)
At(v, i) == v[i + 1]

\* i32::cmp
Cmp(a, b) == IF a < b THEN "Less" ELSE IF a > b THEN "Greater" ELSE "Equal"

\* Vec::contains( &Value::Any ); the mutant looks at the first entry only.
ContainsAnyFirstOnly(list) == Len(list) > 0 /\ list[1] = Any
ContainsAny(list) == \E i \in 1..Len(list) : list[i] = Any

\* Locals of one helper call.
Locals(o, x, v, p) == [o_pointer |-> o, x_pointer |-> x, vec |-> v, panic |-> p]

\* ---------------------------------------------------------------------
\* reduce_by_allowed: loop condition and one iteration of the loop body.
AllowedCond(orig, list, s) ==
    s.o_pointer < Len(orig) /\ s.x_pointer < Len(list)

\* Mutant: the Greater arm also pushes the available value.
AllowedBodyPushGreater(orig, list, s) ==
    LET e == At(list, s.x_pointer)
    IN  IF e.tag = "Number"
        THEN CASE Cmp(At(orig, s.o_pointer), e.num) = "Less" ->
                    [s EXCEPT !.o_pointer = @ + 1]
               [] Cmp(At(orig, s.o_pointer), e.num) = "Greater" ->
                    [s EXCEPT !.x_pointer = @ + 1,
                              !.vec = Append(@, At(orig, s.o_pointer))]
               [] Cmp(At(orig, s.o_pointer), e.num) = "Equal" ->
                    [s EXCEPT !.vec = Append(@, At(orig, s.o_pointer)),
                              !.o_pointer = @ + 1,
                              !.x_pointer = @ + 1]
        ELSE s

\* Mutant: the Equal arm inserts at the front of vec.
AllowedBodyPushFront(orig, list, s) ==
    LET e == At(list, s.x_pointer)
    IN  IF e.tag = "Number"
        THEN CASE Cmp(At(orig, s.o_pointer), e.num) = "Less" ->
                    [s EXCEPT !.o_pointer = @ + 1]
               [] Cmp(At(orig, s.o_pointer), e.num) = "Greater" ->
                    [s EXCEPT !.x_pointer = @ + 1]
               [] Cmp(At(orig, s.o_pointer), e.num) = "Equal" ->
                    [s EXCEPT !.vec = <<At(orig, s.o_pointer)>> \o @,
                              !.o_pointer = @ + 1,
                              !.x_pointer = @ + 1]
        ELSE s

\* Mutant: the Equal arm forgets the push.
AllowedBodyNoPush(orig, list, s) ==
    LET e == At(list, s.x_pointer)
    IN  IF e.tag = "Number"
        THEN CASE Cmp(At(orig, s.o_pointer), e.num) = "Less" ->
                    [s EXCEPT !.o_pointer = @ + 1]
               [] Cmp(At(orig, s.o_pointer), e.num) = "Greater" ->
                    [s EXCEPT !.x_pointer = @ + 1]
               [] Cmp(At(orig, s.o_pointer), e.num) = "Equal" ->
                    [s EXCEPT !.o_pointer = @ + 1,
                              !.x_pointer = @ + 1]
        ELSE s

\* The body of the while loop (lib.rs 30-43).  An entry that is not a
\* Number matches no arm of the `if let`: nothing is assigned.
AllowedBody(orig, list, s) ==
    LET e == At(list, s.x_pointer)
    IN  IF e.tag = "Number"
        THEN CASE Cmp(At(orig, s.o_pointer), e.num) = "Less" ->
                    [s EXCEPT !.o_pointer = @ + 1]
               [] Cmp(At(orig, s.o_pointer), e.num) = "Greater" ->
                    [s EXCEPT !.x_pointer = @ + 1]
               [] Cmp(At(orig, s.o_pointer), e.num) = "Equal" ->
                    [s EXCEPT !.vec = Append(@, At(orig, s.o_pointer)),
                              !.o_pointer = @ + 1,
                              !.x_pointer = @ + 1]
        ELSE s

\* ---------------------------------------------------------------------
\* reduce_by_preferred: loop condition and one iteration of the loop body.
PreferredCond(orig, list, s) ==
    s.o_pointer < Len(orig) /\ s.x_pointer < Len(list)

\* Mutant: the Less arm reads original[ o_pointer ] after the increment.
PushLastNoDecrement(orig, s) ==
    IF s.o_pointer >= Len(orig)
    THEN IF InBounds(orig, s.o_pointer)
         THEN [s EXCEPT !.vec = Append(@, At(orig, s.o_pointer))]
         ELSE [s EXCEPT !.panic = TRUE]
    ELSE s

\* The push of original[ o_pointer - 1 ] in the Less arm (lib.rs 62-65).
PushLast(orig, s) ==
    IF s.o_pointer >= Len(orig)
    THEN IF InBounds(orig, s.o_pointer - 1)
         THEN [s EXCEPT !.vec = Append(@, At(orig, s.o_pointer - 1))]
         ELSE [s EXCEPT !.panic = TRUE]
    ELSE s

\* Mutant: the Greater arm pushes the preferred number itself.
PreferredBodyPushNum(orig, list, s) ==
    LET e == At(list, s.x_pointer)
    IN  IF e.tag = "Number"
        THEN CASE Cmp(At(orig, s.o_pointer), e.num) = "Less" ->
                    PushLast(orig, [s EXCEPT !.o_pointer = @ + 1])
               [] Cmp(At(orig, s.o_pointer), e.num) = "Greater" ->
                    [s EXCEPT !.vec = Append(@, e.num),
                              !.x_pointer = @ + 1]
               [] Cmp(At(orig, s.o_pointer), e.num) = "Equal" ->
                    [s EXCEPT !.vec = Append(@, At(orig, s.o_pointer)),
                              !.o_pointer = @ + 1,
                              !.x_pointer = @ + 1]
        ELSE s

\* Mutant: the Less arm never falls back to the last value.
PreferredBodyNoFallback(orig, list, s) ==
    LET e == At(list, s.x_pointer)
    IN  IF e.tag = "Number"
        THEN CASE Cmp(At(orig, s.o_pointer), e.num) = "Less" ->
                    [s EXCEPT !.o_pointer = @ + 1]
               [] Cmp(At(orig, s.o_pointer), e.num) = "Greater" ->
                    [s EXCEPT !.vec = Append(@, At(orig, s.o_pointer)),
                              !.x_pointer = @ + 1]
               [] Cmp(At(orig, s.o_pointer), e.num) = "Equal" ->
                    [s EXCEPT !.vec = Append(@, At(orig, s.o_pointer)),
                              !.o_pointer = @ + 1,
                              !.x_pointer = @ + 1]
        ELSE s

\* Mutant: the Less arm pushes every value it steps over.
PreferredBodyPushEveryLess(orig, list, s) ==
    LET e == At(list, s.x_pointer)
    IN  IF e.tag = "Number"
        THEN CASE Cmp(At(orig, s.o_pointer), e.num) = "Less" ->
                    [s EXCEPT !.vec = Append(@, At(orig, s.o_pointer)),
                              !.o_pointer = @ + 1]
               [] Cmp(At(orig, s.o_pointer), e.num) = "Greater" ->
                    [s EXCEPT !.vec = Append(@, At(orig, s.o_pointer)),
                              !.x_pointer = @ + 1]
               [] Cmp(At(orig, s.o_pointer), e.num) = "Equal" ->
                    [s EXCEPT !.vec = Append(@, At(orig, s.o_pointer)),
                              !.o_pointer = @ + 1,
                              !.x_pointer = @ + 1]
        ELSE s

\* The body of the while loop (lib.rs 57-79).
PreferredBody(orig, list, s) ==
    LET e == At(list, s.x_pointer)
    IN  IF e.tag = "Number"
        THEN CASE Cmp(At(orig, s.o_pointer), e.num) = "Less" ->
                    PushLast(orig, [s EXCEPT !.o_pointer = @ + 1])
               [] Cmp(At(orig, s.o_pointer), e.num) = "Greater" ->
                    [s EXCEPT !.vec = Append(@, At(orig, s.o_pointer)),
                              !.x_pointer = @ + 1]
               [] Cmp(At(orig, s.o_pointer), e.num) = "Equal" ->
                    [s EXCEPT !.vec = Append(@, At(orig, s.o_pointer)),
                              !.o_pointer = @ + 1,
                              !.x_pointer = @ + 1]
        ELSE s

\* ---------------------------------------------------------------------
\* The helpers as functions of their arguments, for lists without Any
\* (every iteration then advances a pointer).
RECURSIVE RunAllowed(_, _, _)
RunAllowed(orig, list, s) ==
    IF AllowedCond(orig, list, s)
    THEN RunAllowed(orig, list, AllowedBody(orig, list, s))
    ELSE s.vec

RECURSIVE RunPreferred(_, _, _)
RunPreferred(orig, list, s) ==
    IF PreferredCond(orig, list, s) /\ ~s.panic
    THEN RunPreferred(orig, list, PreferredBody(orig, list, s))
    ELSE s.vec

reduce_by_allowed(orig, list) == RunAllowed(orig, list, Locals(0, 0, <<>>, FALSE))
reduce_by_preferred(orig, list) == RunPreferred(orig, list, Locals(0, 0, <<>>, FALSE))

\* attempt as a function of its arguments (lib.rs 123-139).
attempt(av, al, pr) ==
    IF ContainsAny(al) /\ ContainsAny(pr) THEN av
    ELSE IF ContainsAny(al) THEN reduce_by_preferred(av, pr)
    ELSE IF ContainsAny(pr) THEN reduce_by_allowed(av, al)
    ELSE reduce_by_preferred(reduce_by_allowed(av, al), pr)

\* ---------------------------------------------------------------------
\* State of one call.
VARIABLES
    available,   \* argument of the call
    allowed,     \* argument of the call
    preferred,   \* argument of the call
    call,        \* the function called
    pc,          \* "start", "allowed_loop", "preferred_loop", "done", "panic"
    original,    \* `original` of the running helper
    list,        \* filter vector of the running helper
    o_pointer,
    x_pointer,   \* a_pointer in reduce_by_allowed, p_pointer in reduce_by_preferred
    vec,
    cont,        \* what attempt does with reduce_by_allowed's value
    result       \* the returned vector

vars == <<available, allowed, preferred, call, pc, original, list,
          o_pointer, x_pointer, vec, cont, result>>

inputs == <<available, allowed, preferred, call>>

Init ==
    /\ call \in {"attempt", "reduce_by_allowed", "reduce_by_preferred"}
    /\ available \in SeqsUpTo(1..MaxVal, MaxAvail)
    /\ allowed \in IF call = "reduce_by_preferred" THEN {<<>>}
                   ELSE SeqsUpTo(Value, MaxList)
    /\ preferred \in IF call = "reduce_by_allowed" THEN {<<>>}
                     ELSE SeqsUpTo(Value, MaxList)
    /\ pc = "start"
    /\ original = <<>>
    /\ list = <<>>
    /\ o_pointer = 0
    /\ x_pointer = 0
    /\ vec = <<>>
    /\ cont = "return"
    /\ result = <<>>

\* Entry of a helper: the three `let mut` lines.
Enter(loop, orig, l, k) ==
    /\ pc' = loop
    /\ original' = orig
    /\ list' = l
    /\ o_pointer' = 0
    /\ x_pointer' = 0
    /\ vec' = <<>>
    /\ cont' = k
    /\ UNCHANGED result

Return(v) ==
    /\ pc' = "done"
    /\ result' = v
    /\ UNCHANGED <<original, list, o_pointer, x_pointer, vec, cont>>

\* attempt, lib.rs 125-128
AttemptBothAny ==
    /\ pc = "start" /\ call = "attempt"
    /\ ContainsAny(allowed) /\ ContainsAny(preferred)
    /\ Return(available)
    /\ UNCHANGED inputs

\* attempt, lib.rs 129-132
AttemptAllowedAny ==
    /\ pc = "start" /\ call = "attempt"
    /\ ~(ContainsAny(allowed) /\ ContainsAny(preferred))
    /\ ContainsAny(allowed)
    /\ Enter("preferred_loop", available, preferred, "return")
    /\ UNCHANGED inputs

\* attempt, lib.rs 133-136
AttemptPreferredAny ==
    /\ pc = "start" /\ call = "attempt"
    /\ ~ContainsAny(allowed)
    /\ ContainsAny(preferred)
    /\ Enter("allowed_loop", available, allowed, "return")
    /\ UNCHANGED inputs

\* attempt, lib.rs 137
AttemptFilter ==
    /\ pc = "start" /\ call = "attempt"
    /\ ~ContainsAny(allowed)
    /\ ~ContainsAny(preferred)
    /\ Enter("allowed_loop", available, allowed, "preferred")
    /\ UNCHANGED inputs

\* direct calls of the helpers (the unit tests call them)
CallReduceByAllowed ==
    /\ pc = "start" /\ call = "reduce_by_allowed"
    /\ Enter("allowed_loop", available, allowed, "return")
    /\ UNCHANGED inputs

CallReduceByPreferred ==
    /\ pc = "start" /\ call = "reduce_by_preferred"
    /\ Enter("preferred_loop", available, preferred, "return")
    /\ UNCHANGED inputs

Cur == Locals(o_pointer, x_pointer, vec, FALSE)

Assign(s, loop) ==
    /\ o_pointer' = s.o_pointer
    /\ x_pointer' = s.x_pointer
    /\ vec' = s.vec
    /\ pc' = IF s.panic THEN "panic" ELSE loop
    /\ UNCHANGED <<original, list, cont, result>>

\* one iteration of the loop of reduce_by_allowed
AllowedIter ==
    /\ pc = "allowed_loop"
    /\ AllowedCond(original, list, Cur)
    /\ Assign(AllowedBody(original, list, Cur), "allowed_loop")
    /\ UNCHANGED inputs

\* the loop of reduce_by_allowed ends: `vec` is returned; attempt line 138
\* passes it on to reduce_by_preferred
AllowedReturn ==
    /\ pc = "allowed_loop"
    /\ ~AllowedCond(original, list, Cur)
    /\ IF cont = "preferred"
       THEN Enter("preferred_loop", vec, preferred, "return")
       ELSE Return(vec)
    /\ UNCHANGED inputs

\* one iteration of the loop of reduce_by_preferred
PreferredIter ==
    /\ pc = "preferred_loop"
    /\ PreferredCond(original, list, Cur)
    /\ Assign(PreferredBody(original, list, Cur), "preferred_loop")
    /\ UNCHANGED inputs

PreferredReturn ==
    /\ pc = "preferred_loop"
    /\ ~PreferredCond(original, list, Cur)
    /\ Return(vec)
    /\ UNCHANGED inputs

Next ==
    \/ AttemptBothAny
    \/ AttemptAllowedAny
    \/ AttemptPreferredAny
    \/ AttemptFilter
    \/ CallReduceByAllowed
    \/ CallReduceByPreferred
    \/ AllowedIter
    \/ AllowedReturn
    \/ PreferredIter
    \/ PreferredReturn

Spec == Init /\ [][Next]_vars

\* The call runs to its end: a loop iteration that is enabled is taken.
FairSpec == Spec /\ WF_vars(Next)

\* ---------------------------------------------------------------------
\* Vocabulary of the properties.
Range(s) == {s[i] : i \in 1..Len(s)}
HasAny(l) == Any \in Range(l)
Nums(l) == {l[i].num : i \in {j \in 1..Len(l) : l[j].tag = "Number"}}
NumSeq(l) == [i \in 1..Len(l) |-> l[i].num]
IsStrictlyAscending(s) == \A i \in 1..Len(s) - 1 : s[i] < s[i + 1]
IsNonDecreasing(s) == \A i \in 1..Len(s) - 1 : s[i] <= s[i + 1]
NoDuplicates(s) == \A i, j \in 1..Len(s) : s[i] = s[j] => i = j
Max(S) == CHOOSE m \in S : \A y \in S : y <= m
Min(S) == CHOOSE m \in S : \A y \in S : m <= y

\* p itself if available, else the smallest available value above p, else
\* the largest available value below p.
Nearest(av, p) ==
    IF p \in Range(av) THEN p
    ELSE IF \E v \in Range(av) : v > p
         THEN Min({v \in Range(av) : v > p})
         ELSE Max({v \in Range(av) : v < p})

\* r is s with entries left out, order kept.
IsSubsequence(r, s) ==
    \E f \in [1..Len(r) -> 1..Len(s)] :
        /\ \A i \in 1..Len(r) : r[i] = s[f[i]]
        /\ \A i \in 1..Len(r) - 1 : f[i] < f[i + 1]

\* The members of S in the order of their first appearance in s.
RECURSIVE InOrderOfAppearance(_, _)
InOrderOfAppearance(s, S) ==
    IF s = <<>> THEN <<>>
    ELSE LET init == InOrderOfAppearance(SubSeq(s, 1, Len(s) - 1), S)
             last == s[Len(s)]
         IN  IF last \in S /\ last \notin Range(init)
             THEN Append(init, last)
             ELSE init

Norm(l) == IF HasAny(l) THEN <<Any>> ELSE l

Returned(f) == call = f /\ pc = "done"

\* ---------------------------------------------------------------------
\* C1: with allowed and preferred made of Number entries only, every
\* element attempt returns is in available and is an allowed number.
C1_ResultWithinAllowedAvailable ==
    (Returned("attempt") /\ ~HasAny(allowed) /\ ~HasAny(preferred))
        => Range(result) \subseteq (Range(available) \cap Nums(allowed))

C1_Witness ==
    /\ Returned("attempt") /\ ~HasAny(allowed) /\ ~HasAny(preferred)
    /\ result # <<>>
    /\ Range(available) \cap Nums(allowed) # Range(available)
    /\ \E p \in Nums(preferred) : p \notin Range(available) \cap Nums(allowed)

\* C2 as claimed: for non-empty strictly ascending available and preferred
\* Numbers in any order, with or without repeats, the set of values
\* reduce_by_preferred returns is { Nearest(p) : Number(p) in preferred }.
C2_NearestSetAnyOrder ==
    (Returned("reduce_by_preferred") /\ available # <<>>
       /\ IsStrictlyAscending(available) /\ ~HasAny(preferred))
        => Range(result) = {Nearest(available, p) : p \in Nums(preferred)}

\* C2 amended: the same, for preferred numbers in strictly ascending order.
C2_NearestSetAscending ==
    (Returned("reduce_by_preferred") /\ available # <<>>
       /\ IsStrictlyAscending(available) /\ ~HasAny(preferred)
       /\ IsStrictlyAscending(NumSeq(preferred)))
        => Range(result) = {Nearest(available, p) : p \in Nums(preferred)}

C2_Witness ==
    /\ Returned("reduce_by_preferred") /\ Len(available) >= 2
    /\ IsStrictlyAscending(available) /\ ~HasAny(preferred)
    /\ IsStrictlyAscending(NumSeq(preferred)) /\ Len(preferred) = 2
    /\ \E p \in Nums(preferred) :
          p \notin Range(available) /\ \A v \in Range(available) : v < p

\* C3: for strictly ascending available and preferred Numbers, the vector
\* reduce_by_preferred returns holds no value twice.
C3_NoDuplicates ==
    (Returned("reduce_by_preferred") /\ IsStrictlyAscending(available)
       /\ ~HasAny(preferred))
        => NoDuplicates(result)

C5_AnySkipsStage ==
    Returned("attempt") =>
        /\ result = attempt(available, Norm(allowed), Norm(preferred))
        /\ (HasAny(allowed) /\ HasAny(preferred)) => result = available
        /\ (HasAny(allowed) /\ ~HasAny(preferred))
              => result = reduce_by_preferred(available, preferred)
        /\ (~HasAny(allowed) /\ HasAny(preferred))
              => result = reduce_by_allowed(available, allowed)

C5_Witness ==
    /\ Returned("attempt")
    /\ HasAny(allowed) /\ allowed[1] # Any
    /\ ~HasAny(preferred) /\ preferred # <<>>
    /\ Nums(allowed) \cap Range(available) = {}
    /\ result # <<>>

\* C6: for ascending available and allowed without Any whose numbers all
\* lie outside available, attempt returns the empty vector whatever
\* preferred is.
C6_EmptyWhenNothingAllowed ==
    (Returned("attempt") /\ IsNonDecreasing(available) /\ ~HasAny(allowed)
       /\ Nums(allowed) \cap Range(available) = {})
        => result = <<>>

C6_Witness ==
    /\ Returned("attempt") /\ IsNonDecreasing(available) /\ ~HasAny(allowed)
    /\ Nums(allowed) \cap Range(available) = {}
    /\ Len(available) >= 2 /\ Len(allowed) = 2
    /\ preferred # <<>> /\ ~HasAny(preferred)

\* C7: every call of attempt runs to its return: no loop runs forever and
\* no index leaves its vector.
C7_AttemptTerminates ==
    (call = "attempt") ~> (pc = "done")

C7_Witness ==
    /\ Returned("attempt")
    /\ ~IsNonDecreasing(available)
    /\ HasAny(allowed) /\ allowed[1] # Any
    /\ preferred # <<>> /\ ~HasAny(preferred)
    /\ o_pointer = Len(available)
    /\ result = <<available[Len(available)]>>

\* C8 as claimed: for strictly ascending available and allowed Numbers in
\* any order, reduce_by_allowed returns the values present in both, in
\* their order of appearance in allowed.
C8_IntersectionAnyOrder ==
    (Returned("reduce_by_allowed") /\ IsStrictlyAscending(available)
       /\ ~HasAny(allowed))
        => result = InOrderOfAppearance(NumSeq(allowed), Range(available))

\* C8 amended: the same, for allowed numbers in ascending order.
C8_IntersectionAscending ==
    (Returned("reduce_by_allowed") /\ IsStrictlyAscending(available)
       /\ ~HasAny(allowed) /\ IsNonDecreasing(NumSeq(allowed)))
        => result = InOrderOfAppearance(NumSeq(allowed), Range(available))

C8_Witness ==
    /\ Returned("reduce_by_allowed") /\ IsStrictlyAscending(available)
    /\ ~HasAny(allowed) /\ IsNonDecreasing(NumSeq(allowed))
    /\ Len(result) = 2 /\ Len(available) = 3

\* C9: a helper called with a non-empty available and a list holding an
\* Any entry steps past that entry and returns.
C9_HelpersStepPastAny ==
    (/\ call \in {"reduce_by_allowed", "reduce_by_preferred"}
     /\ available # <<>>
     /\ (HasAny(allowed) \/ HasAny(preferred)))
        ~> (pc = "done")

\* C10: for strictly ascending available, what reduce_by_allowed builds is
\* a subsequence of available, the vector attempt hands to
\* reduce_by_preferred is strictly ascending, and what attempt returns is
\* non-decreasing.
C10_OrderKept ==
    IsStrictlyAscending(available) =>
        /\ pc = "allowed_loop" => IsSubsequence(vec, available)
        /\ Returned("reduce_by_allowed") => IsSubsequence(result, available)
        /\ pc = "preferred_loop" => IsStrictlyAscending(original)
        /\ Returned("attempt") => IsNonDecreasing(result)

C10_Witness ==
    /\ Returned("attempt") /\ IsStrictlyAscending(available)
    /\ ~HasAny(allowed) /\ ~HasAny(preferred)
    /\ Len(available) = 3 /\ Len(original) = 2 /\ Len(result) = 2

====
